---- MODULE Spec2Model ----
(***************************************************************************)
(* The deck-box geometry pipeline of src/commander_deck_box.py: main()     *)
(* builds the body, finishes its edges, cuts the side depressions and the  *)
(* entry, builds the lid, mirrors the entry, adds the detents, cuts the    *)
(* fit groove, unions the assembly and exports.                            *)
(*                                                                         *)
(* Lengths are fixed-point integers, MM units to the millimetre, so that   *)
(* the code's 0.05, 0.98, 0.85 ... products are exact on the inputs drawn. *)
(* A solid is the sequence of the kernel operations that produced it: two  *)
(* solids are the same solid iff the sequences are equal, and an operation *)
(* that returns its input returns the same sequence.  What the CAD kernel  *)
(* answers (an edge selection is empty, a fillet, chamfer or boolean       *)
(* raises) is not decided by this code, and is a nondeterministic choice.  *)
(***************************************************************************)
EXTENDS Integers, Sequences, FiniteSets

VARIABLES
    deck,                  \* DeckSpec
    box,                   \* BoxSpec
    lid_spec,              \* LidSpec
    dep,                   \* SideDepressionSpec
    opts,                  \* BuildOptions
    pc,                    \* the statement of main() that runs next
    sel,                   \* position in the selector loop of the running stage
    body,                  \* main: body
    dims,                  \* main: dims
    dep_depth_effective,   \* main: dep_depth_effective
    entry_removed_shape,   \* main: entry_removed_shape
    lid,                   \* main: lid
    lid_dims,              \* main: lid_dims
    lid_cutter,            \* main: lid_cutter
    detent,                \* add_lid_detents: r, protrusion_full, cut_ratio, protrusion_cut
    assembly,              \* main: assembly
    last,                  \* the most recent call of an edge-finishing helper
    raised,                \* the statement an exception propagated from ("" if none)
    exported,              \* the files written by cq.exporters.export, in order
    ran,                   \* the statements of main() that have run, in order
    entry_cutter,          \* build_entry_cutter: entry_h and the cutter box
    hex_lid_geom,          \* build_hex_lid: the profile and the placed extrusion
    groove_cutter,         \* cut_body_with_lid: its lid argument, the cutter, the cuts
    assembly_lid           \* main: the lid operand of body.union(lid)

vars == <<deck, box, lid_spec, dep, opts, pc, sel, body, dims, dep_depth_effective,
          entry_removed_shape, lid, lid_dims, lid_cutter, detent, assembly, last,
          raised, exported, ran, entry_cutter, hex_lid_geom, groove_cutter,
          assembly_lid>>

----------------------------------------------------------------------------
(* Units and bounds *)

\* fixed-point scale: units per millimetre
MM == 10 * 1000

\* n hundredths of a millimetre
Hundredths(n) == n * (MM \div 100)

\* card_count ranges over 1..MaxCards, and the 100 cards of the default deck
MaxCards == 2
\* wall_thickness_mm ranges over 1..MaxWall millimetres, and 0.03 mm
MaxWall == 4
\* requested depression depths range over -1..MaxDepth millimetres, and 10 mm
MaxDepth == 4

Max(a, b) == IF a >= b THEN a ELSE b
Min(a, b) == IF a <= b THEN a ELSE b
Abs(a) == IF a < 0 THEN -a ELSE a

----------------------------------------------------------------------------
(* Configuration records: the dataclass defaults *)

DefaultDeck ==
    [card_count |-> 100,
     outer_sleeve_size_mm |-> <<66 * MM, 91 * MM>>,
     estimated_double_sleeved_card_thickness_mm |-> Hundredths(76),
     side_clearance_mm |-> Hundredths(150),
     stack_clearance_mm |-> 2 * MM,
     top_clearance_mm |-> 4 * MM]

DefaultBox ==
    [wall_thickness_mm |-> 4 * MM,
     bottom_thickness_mm |-> Hundredths(56),
     compensate_lid_intrusion |-> TRUE,
     link_entry_height_to_lid |-> TRUE,
     corner_radius_mm |-> 2 * MM,
     entry_height_mm |-> 2 * MM,
     entry_depth_mm |-> 10 * MM,
     top_chamfer_mm |-> Hundredths(80)]

DefaultLid ==
    [clearance_mm |-> Hundredths(20),
     thickness_mm |-> 3 * MM,
     groove_fit_relief_mm |-> Hundredths(10),
     hex_tip_offset_mm |-> Hundredths(140),
     mirror_front_entry_shape |-> TRUE,
     detents_enabled |-> TRUE,
     detent_diameter_mm |-> Hundredths(60),
     detent_protrusion_mm |-> Hundredths(50),
     detent_cut_ratio |-> 80,           \* percent
     detent_face_modes |-> <<"z_inner">>]

DefaultDep ==
    [enabled |-> TRUE,
     faces |-> {">X", "<X", ">Y", "<Y"},
     depth_mm |-> 3 * MM,
     edge_chamfer_mm |-> Hundredths(425),
     edge_margin_mm |-> 5 * MM,
     top_extra_margin_mm |-> 3 * MM]

DefaultOpts == [enable_preview |-> TRUE, export_stl |-> TRUE]

----------------------------------------------------------------------------
(* Solids *)

NoSolid == <<>>
NoDims == [inner |-> <<0, 0, 0>>, inner_nominal |-> <<0, 0, 0>>, lid_comp_h |-> 0,
           outer |-> <<0, 0, 0>>]
NoDetent == [r |-> 0, protrusion_full |-> 0, cut_ratio |-> 0, protrusion_cut |-> 0]
\* A call of an edge-finishing operation: op the operation, helper the retrying
\* helper it called ("" when it called none), size the configured radius or
\* chamfer size, radius the value handed to the kernel loop, empty whether the
\* region selected no edge, tried the factors (by index) attempted, failed those
\* of them at which the kernel raised, raised whether the operation raised.
NoCall == [op |-> "none", helper |-> "", inp |-> NoSolid, out |-> NoSolid, size |-> 0,
           radius |-> 0, empty |-> FALSE, tried |-> <<>>, failed |-> {}, raised |-> FALSE]

\* solid.op(...): the solid after one more kernel operation
Apply(solid, op) == Append(solid, op)

----------------------------------------------------------------------------
(* Dimension derivation *)

\* faulty variant: the side clearance counted once
calculate_internal_one_side(d) ==
    <<d.outer_sleeve_size_mm[1] + d.side_clearance_mm,
      d.card_count * d.estimated_double_sleeved_card_thickness_mm + d.stack_clearance_mm,
      d.outer_sleeve_size_mm[2] + d.top_clearance_mm>>

calculate_internal(d) ==
    <<d.outer_sleeve_size_mm[1] + 2 * d.side_clearance_mm,
      d.card_count * d.estimated_double_sleeved_card_thickness_mm + d.stack_clearance_mm,
      d.outer_sleeve_size_mm[2] + d.top_clearance_mm>>

\* faulty variant: the compensation applied whatever the flag
lid_comp_h_unconditional(d, b) == b.wall_thickness_mm

lid_comp_h(d, b) == IF b.compensate_lid_intrusion THEN b.wall_thickness_mm ELSE 0

\* faulty variant: one wall added to the width instead of two
build_body_dims_one_wall(d, b) ==
    LET int == calculate_internal(d)
        inner_h == int[3] + lid_comp_h(d, b)
    IN  [inner |-> <<int[1], int[2], inner_h>>,
         inner_nominal |-> int,
         lid_comp_h |-> lid_comp_h(d, b),
         outer |-> <<int[1] + b.wall_thickness_mm,
                     int[2] + 2 * b.wall_thickness_mm,
                     inner_h + b.bottom_thickness_mm>>]

build_body_dims(d, b) ==
    LET int == calculate_internal(d)
        inner_h == int[3] + lid_comp_h(d, b)
    IN  [inner |-> <<int[1], int[2], inner_h>>,
         inner_nominal |-> int,
         lid_comp_h |-> lid_comp_h(d, b),
         outer |-> <<int[1] + 2 * b.wall_thickness_mm,
                     int[2] + 2 * b.wall_thickness_mm,
                     inner_h + b.bottom_thickness_mm>>]

----------------------------------------------------------------------------
(* Edge finishing: the retry loop shared by _safe_fillet, _safe_chamfer and   *)
(* round_lid_front_edges                                                      *)

\* faulty variant: abs() where the code clamps at zero
corner_radius_abs(b) == Abs(b.corner_radius_mm)

\* r = max(0.0, box.corner_radius_mm), in round_outer_edges and round_lid_front_edges
corner_radius(b) == Max(0, b.corner_radius_mm)

\* faulty variant: the factors in ascending order
Factors_ascending == <<40, 55, 70, 85, 100>>

Factors == <<100, 85, 70, 55, 40>>       \* percent: 1.0, 0.85, 0.7, 0.55, 0.4

\* The loop from factor i on.  skip_small: the r_try < 0.05 guard is present.
\* empty: edges(sel) selects nothing.  failing: the factors at which the kernel
\* raises.  kind: "fillet" or "chamfer".
RECURSIVE RetryFrom(_, _, _, _, _, _, _, _, _)
RetryFrom(i, body_in, radius, skip_small, empty, failing, kind, tried, failed) ==
    IF i > Len(Factors)
    THEN [out |-> body_in, tried |-> tried, failed |-> failed]
    ELSE LET r_try == (radius * Factors[i]) \div 100
         IN  IF skip_small /\ r_try < Hundredths(5)
             THEN RetryFrom(i + 1, body_in, radius, skip_small, empty, failing, kind,
                            tried, failed)
             ELSE IF empty
             THEN [out |-> body_in, tried |-> tried, failed |-> failed]
             ELSE IF i \in failing
             THEN RetryFrom(i + 1, body_in, radius, skip_small, empty, failing, kind,
                            Append(tried, i), failed \cup {i})
             ELSE [out |-> Apply(body_in, kind), tried |-> Append(tried, i),
                   failed |-> failed]

\* faulty variant: the empty-selection return left out
safe_fillet_no_empty_check(body_in, radius, empty, failing) ==
    RetryFrom(1, body_in, radius, TRUE, FALSE, failing, "fillet", <<>>, {})

safe_fillet(body_in, radius, empty, failing) ==
    RetryFrom(1, body_in, radius, TRUE, empty, failing, "fillet", <<>>, {})

safe_chamfer(body_in, ch_in, empty, failing) ==
    RetryFrom(1, body_in, ch_in, TRUE, empty, failing, "chamfer", <<>>, {})

lid_front_fillet(lid_in, r, empty, failing) ==
    RetryFrom(1, lid_in, r, FALSE, empty, failing, "fillet", <<>>, {})

\* What the kernel may answer to one helper call: the selection is empty, or the
\* fillet/chamfer raises at any subset of the factors.
KernelAnswers == {[empty |-> TRUE, failing |-> {}]}
                 \cup {[empty |-> FALSE, failing |-> f] : f \in SUBSET (1..Len(Factors))}

CallRecord(op, helper, inp, size, radius, k, res) ==
    [op |-> op, helper |-> helper, inp |-> inp, out |-> res.out, size |-> size,
     radius |-> radius, empty |-> k.empty, tried |-> res.tried, failed |-> res.failed,
     raised |-> FALSE]

\* The operation returned its input without calling the kernel.
NoOpRecord(op, inp, size) ==
    [NoCall EXCEPT !.op = op, !.inp = inp, !.out = inp, !.size = size]

----------------------------------------------------------------------------
(* Side depressions *)

FaceOrder == <<">X", "<X", ">Y", "<Y">>

InFaces(f) == f \in dep.faces

\* the faces handled, in the order of the code's four `if`s
EnabledFaces == SelectSeq(FaceOrder, InFaces)

\* faulty variant: the requested depth taken as it is, without the clamp to the wall
depression_depth_unclamped(dm, dp) ==
    IF ~dp.enabled THEN 0 ELSE Abs(dp.depth_mm)

\* faulty variant: the enabled flag not read
depression_depth_always(dm, dp) ==
    LET wall_x == (dm.outer[1] - dm.inner[1]) \div 2
        wall_y == (dm.outer[2] - dm.inner[2]) \div 2
        max_depth == Max(0, Min(wall_x, wall_y) - Hundredths(5))
    IN  Min(Abs(dp.depth_mm), max_depth)

\* add_side_depressions: the clamped depth (0 when disabled or nothing is left)
depression_depth(dm, dp) ==
    IF ~dp.enabled THEN 0
    ELSE LET wall_x == (dm.outer[1] - dm.inner[1]) \div 2
             wall_y == (dm.outer[2] - dm.inner[2]) \div 2
             max_depth == Max(0, Min(wall_x, wall_y) - Hundredths(5))
         IN  Min(Abs(dp.depth_mm), max_depth)

\* math.hypot(d, d) = d * sqrt(2), rounded down to the unit
Hypot2(d) == (d * 14142) \div 10000

\* chamfer_side_depression_openings: the chamfer size handed to _safe_chamfer
\* (0 when the operation returns early)
depression_chamfer(dp, depth_effective) ==
    LET ch_diag == Hypot2(depth_effective)
        ch == IF dp.edge_chamfer_mm <= 0 THEN ch_diag ELSE Max(0, dp.edge_chamfer_mm)
    IN  IF ch <= 0 \/ depth_effective <= 0 THEN 0 ELSE Min(ch, ch_diag)

----------------------------------------------------------------------------
(* Detents *)

\* faulty variant: the two protrusions returned in the other order
detent_sizes_swapped(ls) ==
    LET r == Max(Hundredths(20), ls.detent_diameter_mm \div 2)
        protrusion_full == Max(Hundredths(10), Min(ls.detent_protrusion_mm, (r * 98) \div 100))
        cut_ratio == Min(100, Max(10, ls.detent_cut_ratio))
    IN  [r |-> r, protrusion_full |-> (protrusion_full * cut_ratio) \div 100,
         cut_ratio |-> cut_ratio, protrusion_cut |-> protrusion_full]

\* add_lid_detents, lines 468-471
\* faulty variant: the cut ratio floored at 0.2
detent_sizes_ratio_floor(ls) ==
    LET r == Max(Hundredths(20), ls.detent_diameter_mm \div 2)
        protrusion_full == Max(Hundredths(10),
                               Min(ls.detent_protrusion_mm, (r * 98) \div 100))
        cut_ratio == Min(100, Max(20, ls.detent_cut_ratio))
    IN  [r |-> r, protrusion_full |-> protrusion_full, cut_ratio |-> cut_ratio,
         protrusion_cut |-> (protrusion_full * cut_ratio) \div 100]

\* faulty variant: the protrusion not capped at 0.98 r
detent_sizes_uncapped(ls) ==
    LET r == Max(Hundredths(20), ls.detent_diameter_mm \div 2)
        protrusion_full == Max(Hundredths(10), ls.detent_protrusion_mm)
        cut_ratio == Min(100, Max(10, ls.detent_cut_ratio))
    IN  [r |-> r, protrusion_full |-> protrusion_full, cut_ratio |-> cut_ratio,
         protrusion_cut |-> (protrusion_full * cut_ratio) \div 100]

detent_sizes(ls) ==
    LET r == Max(Hundredths(20), ls.detent_diameter_mm \div 2)
        protrusion_full == Max(Hundredths(10), Min(ls.detent_protrusion_mm, (r * 98) \div 100))
        cut_ratio == Min(100, Max(10, ls.detent_cut_ratio))
    IN  [r |-> r, protrusion_full |-> protrusion_full, cut_ratio |-> cut_ratio,
         protrusion_cut |-> (protrusion_full * cut_ratio) \div 100]

----------------------------------------------------------------------------
(* main(): one action per statement; the selector loops step once per call  *)
(* of their helper                                                          *)

\* faulty variant: the exception swallowed and main() carried on to the exports
Raise_swallowed(at) ==
    /\ pc' = "show_preview"
    /\ raised' = at
    /\ sel' = 0
    /\ ran' = Append(ran, pc)

\* an exception leaves main() from statement `at`
Raise(at) ==
    /\ pc' = "raised"
    /\ raised' = at
    /\ sel' = 0
    /\ ran' = Append(ran, pc)

Goto(next) ==
    /\ pc' = next
    /\ raised' = raised
    /\ sel' = 0
    /\ ran' = Append(ran, pc)

Config == <<deck, box, lid_spec, dep, opts>>

\* build_body, lines 142-161: the dimensions, the shell and its cavity
BuildBody ==
    /\ pc = "build_body"
    /\ \E ok \in BOOLEAN :
          IF ok
          THEN /\ dims' = build_body_dims(deck, box)
               /\ body' = <<"box", "cut">>
               /\ Goto("round_outer_edges")
          ELSE /\ UNCHANGED <<dims, body>>
               /\ Raise("build_body")
    /\ UNCHANGED <<Config, entry_cutter, hex_lid_geom, groove_cutter,
                   assembly_lid, dep_depth_effective, entry_removed_shape, lid, lid_dims,
                   lid_cutter, detent, assembly, last, exported>>

\* round_outer_edges (called at the end of build_body): one _safe_fillet per step
RoundOuterEdges ==
    /\ pc = "round_outer_edges"
    /\ LET r == corner_radius(box) IN
       IF r <= 0
       THEN /\ last' = NoOpRecord("round_outer_edges", body, box.corner_radius_mm)
            /\ body' = body
            /\ Goto("add_side_depressions")
       ELSE \E k \in KernelAnswers :
              LET res == safe_fillet(body, r, k.empty, k.failing) IN
              /\ last' = CallRecord("round_outer_edges", "_safe_fillet", body,
                                    box.corner_radius_mm, r, k, res)
              /\ body' = res.out
              /\ IF sel + 1 = 5
                 THEN Goto("add_side_depressions")
                 ELSE pc' = pc /\ raised' = raised /\ sel' = sel + 1 /\ ran' = ran
    /\ UNCHANGED <<Config, entry_cutter, hex_lid_geom, groove_cutter,
                   assembly_lid, dims, dep_depth_effective, entry_removed_shape, lid, lid_dims,
                   lid_cutter, detent, assembly, exported>>

\* add_side_depressions: one cut per enabled face
AddSideDepressions ==
    /\ pc = "add_side_depressions"
    /\ LET depth == depression_depth(dims, dep) IN
       IF depth <= 0
       THEN /\ body' = body
            /\ dep_depth_effective' = 0
            /\ Goto("chamfer_side_depression_openings")
       ELSE \E ok \in BOOLEAN :
              IF ok \/ EnabledFaces = <<>>
              THEN /\ body' = body \o [i \in 1..Len(EnabledFaces) |-> "cut"]
                   /\ dep_depth_effective' = depth
                   /\ Goto("chamfer_side_depression_openings")
              ELSE /\ body' = body
                   /\ dep_depth_effective' = dep_depth_effective
                   /\ Raise("add_side_depressions")
    /\ UNCHANGED <<Config, entry_cutter, hex_lid_geom, groove_cutter,
                   assembly_lid, dims, entry_removed_shape, lid, lid_dims, lid_cutter, detent,
                   assembly, last, exported>>

\* chamfer_side_depression_openings: one _safe_chamfer per enabled face
ChamferSideDepressionOpenings ==
    /\ pc = "chamfer_side_depression_openings"
    /\ LET ch == depression_chamfer(dep, dep_depth_effective) IN
       IF ch <= 0 \/ EnabledFaces = <<>>
       THEN /\ last' = NoOpRecord("chamfer_side_depression_openings", body,
                                  dep.edge_chamfer_mm)
            /\ body' = body
            /\ Goto("add_entry_cut")
       ELSE \E k \in KernelAnswers :
              LET res == safe_chamfer(body, ch, k.empty, k.failing) IN
              /\ last' = CallRecord("chamfer_side_depression_openings", "_safe_chamfer",
                                    body, dep.edge_chamfer_mm, ch, k, res)
              /\ body' = res.out
              /\ IF sel + 1 = Len(EnabledFaces)
                 THEN Goto("add_entry_cut")
                 ELSE pc' = pc /\ raised' = raised /\ sel' = sel + 1 /\ ran' = ran
    /\ UNCHANGED <<Config, entry_cutter, hex_lid_geom, groove_cutter,
                   assembly_lid, dims, dep_depth_effective, entry_removed_shape, lid, lid_dims,
                   lid_cutter, detent, assembly, exported>>

\* add_entry_cut: removed_shape = body.intersect(entry_cut); body.cut(entry_cut)
NoEntryCutter == [entry_h |-> 0, size |-> <<0, 0, 0>>, offset |-> <<0, 0, 0>>]

\* faulty variant: the entry height never linked to the lid
build_entry_cutter_unlinked(b, dm) ==
    LET entry_h == b.entry_height_mm
    IN  [entry_h |-> entry_h,
         size |-> <<dm.outer[1] + Hundredths(50), b.entry_depth_mm,
                    entry_h + Hundredths(20)>>,
         offset |-> <<0, dm.outer[2] \div 2 - b.entry_depth_mm \div 2,
                      dm.outer[3] - entry_h \div 2>>]

\* build_entry_cutter: the entry height, and the centred box that cuts the entry
build_entry_cutter(b, dm) ==
    LET entry_h == IF b.link_entry_height_to_lid THEN b.wall_thickness_mm
                                                 ELSE b.entry_height_mm
    IN  [entry_h |-> entry_h,
         size |-> <<dm.outer[1] + Hundredths(50), b.entry_depth_mm,
                    entry_h + Hundredths(20)>>,
         offset |-> <<0, dm.outer[2] \div 2 - b.entry_depth_mm \div 2,
                      dm.outer[3] - entry_h \div 2>>]

\* faulty variant: main() going from the entry cut straight to the lid
AddEntryCut_then_lid ==
    /\ pc = "add_entry_cut"
    /\ \E ok \in BOOLEAN :
          IF ok
          THEN /\ entry_cutter' = build_entry_cutter(box, dims)
               /\ entry_removed_shape' = Apply(body, "intersect")
               /\ body' = Apply(body, "cut")
               /\ Goto("build_hex_lid")
          ELSE /\ UNCHANGED <<entry_cutter, entry_removed_shape, body>>
               /\ Raise("add_entry_cut")
    /\ UNCHANGED <<Config, hex_lid_geom, groove_cutter, assembly_lid,
                   dims, dep_depth_effective, lid, lid_dims, lid_cutter, detent,
                   assembly, last, exported>>

\* add_entry_cut: (body_cut, removed_shape, entry_cut)
AddEntryCut ==
    /\ pc = "add_entry_cut"
    /\ \E ok \in BOOLEAN :
          IF ok
          THEN /\ entry_cutter' = build_entry_cutter(box, dims)
               /\ entry_removed_shape' = Apply(body, "intersect")
               /\ body' = Apply(body, "cut")
               /\ Goto("chamfer_top_inner_edges")
          ELSE /\ UNCHANGED <<entry_cutter, entry_removed_shape, body>>
               /\ Raise("add_entry_cut")
    /\ UNCHANGED <<Config, hex_lid_geom, groove_cutter, assembly_lid,
                   dims, dep_depth_effective, lid, lid_dims, lid_cutter, detent,
                   assembly, last, exported>>

\* chamfer_top_inner_edges: a single chamfer call, outside any try
chamfer_top(body_in, b, k) ==
    IF b.top_chamfer_mm <= 0
    THEN [out |-> body_in, tried |-> <<>>, failed |-> {}, raised |-> FALSE]
    ELSE IF k.empty
    THEN [out |-> body_in, tried |-> <<>>, failed |-> {}, raised |-> FALSE]
    ELSE IF 1 \in k.failing
    THEN [out |-> body_in, tried |-> <<1>>, failed |-> {1}, raised |-> TRUE]
    ELSE [out |-> Apply(body_in, "chamfer"), tried |-> <<1>>, failed |-> {},
          raised |-> FALSE]

ChamferTopInnerEdges ==
    /\ pc = "chamfer_top_inner_edges"
    /\ IF box.top_chamfer_mm <= 0
       THEN /\ last' = NoOpRecord("chamfer_top_inner_edges", body, box.top_chamfer_mm)
            /\ body' = body
            /\ Goto("build_hex_lid")
       ELSE \E k \in {a \in KernelAnswers : a.failing \subseteq {1}} :
              LET res == chamfer_top(body, box, k) IN
              /\ last' = [CallRecord("chamfer_top_inner_edges", "", body,
                                     box.top_chamfer_mm, box.top_chamfer_mm, k, res)
                          EXCEPT !.raised = res.raised]
              /\ body' = res.out
              /\ IF res.raised
                 THEN Raise("chamfer_top_inner_edges")
                 ELSE Goto("build_hex_lid")
    /\ UNCHANGED <<Config, entry_cutter, hex_lid_geom, groove_cutter,
                   assembly_lid, dims, dep_depth_effective, entry_removed_shape, lid, lid_dims,
                   lid_cutter, detent, assembly, exported>>

\* faulty variant: the wing-tip offset taken without its floor of 0.1
hex_lid_dims_unclamped(b, ls, dm) ==
    LET top_width == dm.inner[1]
        tip_offset == ls.hex_tip_offset_mm
    IN  [w_top |-> top_width,
         w_total |-> top_width + 2 * tip_offset,
         d |-> dm.inner[2] + b.wall_thickness_mm,
         h |-> b.wall_thickness_mm,
         y_min |-> -(dm.inner[2] \div 2),
         y_max |-> dm.outer[2] \div 2]

\* build_hex_lid: the profile, its extrusion and the two translations
hex_lid_dims(b, ls, dm) ==
    LET top_width == dm.inner[1]
        tip_offset == Max(Hundredths(10), ls.hex_tip_offset_mm)
    IN  [w_top |-> top_width,
         w_total |-> top_width + 2 * tip_offset,
         d |-> dm.inner[2] + b.wall_thickness_mm,
         h |-> b.wall_thickness_mm,
         y_min |-> -(dm.inner[2] \div 2),
         y_max |-> dm.outer[2] \div 2]

NoHexLid == [pts |-> <<>>, ymin |-> 0, ymax |-> 0, z |-> 0]

\* the hexagonal profile: left tip, top flat, right tip, bottom flat
hex_profile(top_width, w, h) ==
    <<<<-(w \div 2), 0>>,
      <<-(top_width \div 2), h \div 2>>,
      <<top_width \div 2, h \div 2>>,
      <<w \div 2, 0>>,
      <<top_width \div 2, -(h \div 2)>>,
      <<-(top_width \div 2), -(h \div 2)>>>>

\* profile.extrude(lid_d, both=False): the solid lies on one side of the XZ plane,
\* which side being the kernel's choice of the plane normal
ExtrudeSides == {"-Y", "+Y"}
extrude_bb(lid_d, side) ==
    IF side = "-Y" THEN [ymin |-> -lid_d, ymax |-> 0] ELSE [ymin |-> 0, ymax |-> lid_d]

\* faulty variant: the extrusion left where the kernel placed it
hex_lid_placed_unmoved(b, ls, dm, side) ==
    LET d == hex_lid_dims(b, ls, dm)
        bb == extrude_bb(d.d, side)
    IN  [pts |-> hex_profile(d.w_top, d.w_total, d.h),
         ymin |-> bb.ymin, ymax |-> bb.ymax,
         z |-> dm.outer[3] - d.h \div 2]

\* the extrusion translated by y_min - bb.ymin along Y and to the box top along Z
hex_lid_placed(b, ls, dm, side) ==
    LET d == hex_lid_dims(b, ls, dm)
        bb == extrude_bb(d.d, side)
        dy == d.y_min - bb.ymin
    IN  [pts |-> hex_profile(d.w_top, d.w_total, d.h),
         ymin |-> bb.ymin + dy, ymax |-> bb.ymax + dy,
         z |-> dm.outer[3] - d.h \div 2]

BuildHexLid ==
    /\ pc = "build_hex_lid"
    /\ \E ok \in BOOLEAN, side \in ExtrudeSides :
          IF ok
          THEN /\ lid_dims' = hex_lid_dims(box, lid_spec, dims)
               /\ hex_lid_geom' = hex_lid_placed(box, lid_spec, dims, side)
               /\ lid' = <<"extrude", "translate", "translate">>
               /\ Goto("center_lid_x_on_body")
          ELSE /\ UNCHANGED <<lid_dims, hex_lid_geom, lid>>
               /\ Raise("build_hex_lid")
    /\ UNCHANGED <<Config, entry_cutter, groove_cutter, assembly_lid,
                   body, dims, dep_depth_effective, entry_removed_shape,
                   lid_cutter, detent, assembly, last, exported>>

CenterLidXOnBody ==
    /\ pc = "center_lid_x_on_body"
    /\ lid' = Apply(lid, "translate")
    /\ Goto("round_lid_front_edges")
    /\ UNCHANGED <<Config, entry_cutter, hex_lid_geom, groove_cutter,
                   assembly_lid, body, dims, dep_depth_effective, entry_removed_shape, lid_dims,
                   lid_cutter, detent, assembly, last, exported>>

RoundLidFrontEdges ==
    /\ pc = "round_lid_front_edges"
    /\ LET r == corner_radius(box) IN
       IF r <= 0
       THEN /\ last' = NoOpRecord("round_lid_front_edges", lid, box.corner_radius_mm)
            /\ lid' = lid
       ELSE \E k \in KernelAnswers :
              LET res == lid_front_fillet(lid, r, k.empty, k.failing) IN
              /\ last' = CallRecord("round_lid_front_edges", "", lid,
                                    box.corner_radius_mm, r, k, res)
              /\ lid' = res.out
    /\ Goto("apply_entry_shape_to_lid")
    /\ UNCHANGED <<Config, entry_cutter, hex_lid_geom, groove_cutter,
                   assembly_lid, body, dims, dep_depth_effective, entry_removed_shape, lid_dims,
                   lid_cutter, detent, assembly, exported>>

\* apply_entry_shape_to_lid: the overlap cut is inside a try, the unions are not
ApplyEntryShapeToLid ==
    /\ pc = "apply_entry_shape_to_lid"
    /\ IF ~lid_spec.mirror_front_entry_shape
       THEN lid' = lid /\ Goto("add_lid_detents")
       ELSE \E outcome \in {"overlap_cut", "no_overlap", "raise"} :
              CASE outcome = "overlap_cut" ->
                     /\ lid' = Apply(Apply(Apply(lid, "cut"), "union"), "clean")
                     /\ Goto("add_lid_detents")
                [] outcome = "no_overlap" ->
                     /\ lid' = Apply(Apply(lid, "union"), "clean")
                     /\ Goto("add_lid_detents")
                [] outcome = "raise" ->
                     /\ lid' = lid
                     /\ Raise("apply_entry_shape_to_lid")
    /\ UNCHANGED <<Config, entry_cutter, hex_lid_geom, groove_cutter,
                   assembly_lid, body, dims, dep_depth_effective, entry_removed_shape, lid_dims,
                   lid_cutter, detent, assembly, last, exported>>

\* add_lid_detents: (lid_full, lid_cutter)
AddLidDetents ==
    /\ pc = "add_lid_detents"
    /\ IF ~lid_spec.detents_enabled
       THEN /\ lid' = lid
            /\ lid_cutter' = lid
            /\ detent' = detent
            /\ Goto("cut_body_with_lid")
       ELSE \E ok \in BOOLEAN :
              IF ok
              THEN /\ detent' = detent_sizes(lid_spec)
                   /\ lid' = Apply(Apply(lid, "union_caps_full"), "clean")
                   /\ lid_cutter' = Apply(Apply(lid, "union_caps_cut"), "clean")
                   /\ Goto("cut_body_with_lid")
              ELSE /\ UNCHANGED <<detent, lid, lid_cutter>>
                   /\ Raise("add_lid_detents")
    /\ UNCHANGED <<Config, entry_cutter, hex_lid_geom, groove_cutter,
                   assembly_lid, body, dims, dep_depth_effective, entry_removed_shape, lid_dims,
                   assembly, last, exported>>

NoGrooveCutter == [lid |-> NoSolid, offsets |-> {}, cuts |-> 0]

\* the translations (x, y, z) of the lid copies that are unioned into the cutter
groove_cutter_offsets(ls) ==
    LET eps == Hundredths(5)
        r == ls.groove_fit_relief_mm
    IN  {<<0, 0, -eps>>} \cup
        (IF r > 0 THEN {<<r, 0, -eps>>, <<-r, 0, -eps>>, <<0, r, -eps>>, <<0, -r, -eps>>}
                  ELSE {})

\* faulty variant: the displayed lid passed to the groove cut
groove_cut_lid_displayed == lid

\* main: the lid argument of cut_body_with_lid(body, lid_cutter, lid_spec)
groove_cut_lid == lid_cutter

\* cut_body_with_lid: a single body.cut(cutter), no second attempt
CutBodyWithLid ==
    /\ pc = "cut_body_with_lid"
    /\ groove_cutter' = [lid |-> groove_cut_lid,
                         offsets |-> groove_cutter_offsets(lid_spec),
                         cuts |-> 1]
    /\ \E ok \in BOOLEAN :
          IF ok
          THEN body' = Apply(body, "cut") /\ Goto("assembly")
          ELSE body' = body /\ Raise("cut_body_with_lid")
    /\ UNCHANGED <<Config, entry_cutter, hex_lid_geom, assembly_lid,
                   dims, dep_depth_effective, entry_removed_shape, lid, lid_dims,
                   lid_cutter, detent, assembly, last, exported>>

\* assembly = body.union(lid)
AssemblyUnion ==
    /\ pc = "assembly"
    /\ \E ok \in BOOLEAN :
          IF ok
          THEN /\ assembly' = Apply(body, "union")
               /\ assembly_lid' = lid
               /\ Goto("show_preview")
          ELSE /\ UNCHANGED <<assembly, assembly_lid>>
               /\ Raise("assembly")
    /\ UNCHANGED <<Config, entry_cutter, hex_lid_geom, groove_cutter,
                   body, dims, dep_depth_effective, entry_removed_shape, lid,
                   lid_dims, lid_cutter, detent, last, exported>>

\* the summary prints and the preview, whose failure is caught and printed
ShowPreview ==
    /\ pc = "show_preview"
    /\ Goto(IF opts.export_stl THEN "export_body" ELSE "done")
    /\ UNCHANGED <<Config, entry_cutter, hex_lid_geom, groove_cutter,
                   assembly_lid, body, dims, dep_depth_effective, entry_removed_shape, lid,
                   lid_dims, lid_cutter, detent, assembly, last, exported>>

Export(at, file, solid, next) ==
    /\ pc = at
    /\ exported' = Append(exported, [file |-> file, solid |-> solid])
    /\ Goto(next)
    /\ UNCHANGED <<Config, entry_cutter, hex_lid_geom, groove_cutter,
                   assembly_lid, body, dims, dep_depth_effective, entry_removed_shape, lid,
                   lid_dims, lid_cutter, detent, assembly, last>>

ExportBody == Export("export_body", "body", body, "export_lid")
ExportLid == Export("export_lid", "lid", lid, "export_assembly")
ExportAssembly == Export("export_assembly", "assembly", assembly, "done")

Next ==
    \/ BuildBody
    \/ RoundOuterEdges
    \/ AddSideDepressions
    \/ ChamferSideDepressionOpenings
    \/ AddEntryCut
    \/ ChamferTopInnerEdges
    \/ BuildHexLid
    \/ CenterLidXOnBody
    \/ RoundLidFrontEdges
    \/ ApplyEntryShapeToLid
    \/ AddLidDetents
    \/ CutBodyWithLid
    \/ AssemblyUnion
    \/ ShowPreview
    \/ ExportBody
    \/ ExportLid
    \/ ExportAssembly

----------------------------------------------------------------------------
(* Initial states: main() about to run, on a configuration drawn from a set *)

Start ==
    /\ pc = "build_body"
    /\ sel = 0
    /\ body = NoSolid
    /\ dims = NoDims
    /\ dep_depth_effective = 0
    /\ entry_removed_shape = NoSolid
    /\ lid = NoSolid
    /\ lid_dims = [w_top |-> 0, w_total |-> 0, d |-> 0, h |-> 0, y_min |-> 0, y_max |-> 0]
    /\ lid_cutter = NoSolid
    /\ detent = NoDetent
    /\ assembly = NoSolid
    /\ last = NoCall
    /\ raised = ""
    /\ exported = <<>>
    /\ ran = <<>>
    /\ entry_cutter = NoEntryCutter
    /\ hex_lid_geom = NoHexLid
    /\ groove_cutter = NoGrooveCutter
    /\ assembly_lid = NoSolid

\* every finishing operation switched off, so that main() runs straight through
Plain(b) == [b EXCEPT !.corner_radius_mm = 0, !.top_chamfer_mm = 0]
PlainLid == [DefaultLid EXCEPT !.mirror_front_entry_shape = FALSE,
                               !.detents_enabled = FALSE]
PlainDep == [DefaultDep EXCEPT !.enabled = FALSE]

\* wall thicknesses: positive ones, down to 0.03 mm
Walls == {k * MM : k \in 1..MaxWall} \cup {Hundredths(3)}
Depths == {k * MM : k \in (-1)..MaxDepth} \cup {10 * MM, -10 * MM}

\* the pipeline under every kernel answer, on the edge-finishing settings
Init ==
    /\ deck = DefaultDeck
    /\ box \in {[DefaultBox EXCEPT !.corner_radius_mm = r] :
                  r \in {Hundredths(10), 2 * MM}}
    /\ lid_spec \in {[DefaultLid EXCEPT !.mirror_front_entry_shape = m,
                                        !.detents_enabled = e] :
                       m \in BOOLEAN, e \in BOOLEAN}
    /\ dep \in {[DefaultDep EXCEPT !.faces = f] : f \in {{">X", "<Y"}}}
    /\ opts \in {[DefaultOpts EXCEPT !.export_stl = x] : x \in BOOLEAN}
    /\ Start

Spec == Init /\ [][Next]_vars

\* the dimension derivation, over decks, walls, bottoms and lid thicknesses
InitDims ==
    /\ deck \in {[DefaultDeck EXCEPT !.card_count = n,
                                     !.outer_sleeve_size_mm = s,
                                     !.estimated_double_sleeved_card_thickness_mm = t,
                                     !.side_clearance_mm = c,
                                     !.top_clearance_mm = tc] :
                   n \in (1..MaxCards) \cup {100},
                   s \in {<<66 * MM, 91 * MM>>, <<56 * MM, 87 * MM>>},
                   t \in {Hundredths(76), Hundredths(30)},
                   c \in {Hundredths(150), 1 * MM},
                   tc \in {4 * MM, 2 * MM}}
    /\ box \in {[Plain(DefaultBox) EXCEPT !.wall_thickness_mm = w,
                                          !.bottom_thickness_mm = bt,
                                          !.compensate_lid_intrusion = f] :
                  w \in Walls \cup {0}, bt \in {0, Hundredths(56)}, f \in BOOLEAN}
    /\ lid_spec \in {[PlainLid EXCEPT !.thickness_mm = t] :
                       t \in {3 * MM, 4 * MM, Hundredths(550)}}
    /\ dep = PlainDep
    /\ opts = DefaultOpts
    /\ Start

SpecDims == InitDims /\ [][Next]_vars

\* the side depressions, over walls, requested depths, faces and chamfer sizes
InitDep ==
    /\ deck = DefaultDeck
    /\ box \in {[Plain(DefaultBox) EXCEPT !.wall_thickness_mm = w] : w \in Walls}
    /\ lid_spec = PlainLid
    /\ dep \in {[DefaultDep EXCEPT !.enabled = e, !.depth_mm = d, !.faces = f,
                                   !.edge_chamfer_mm = c, !.edge_margin_mm = m] :
                  e \in BOOLEAN, d \in Depths,
                  f \in {{">X", "<X", ">Y", "<Y"}, {">X", "<Y"}, {}},
                  c \in {0, Hundredths(425)}, m \in {0, 5 * MM}}
    /\ opts = DefaultOpts
    /\ Start

SpecDep == InitDep /\ [][Next]_vars

\* the edge-finishing operations, over radii and chamfer sizes of either sign
InitFinish ==
    /\ deck = DefaultDeck
    /\ box \in {[DefaultBox EXCEPT !.corner_radius_mm = r, !.top_chamfer_mm = t] :
                  r \in {-1 * MM, 0, 2 * MM},
                  t \in {-Hundredths(50), 0, Hundredths(80)}}
    /\ lid_spec = PlainLid
    /\ dep \in {[DefaultDep EXCEPT !.depth_mm = d, !.faces = {">X"},
                                   !.edge_chamfer_mm = c] :
                  d \in {0, 3 * MM}, c \in {-1 * MM, 0, Hundredths(425)}}
    /\ opts = DefaultOpts
    /\ Start

SpecFinish == InitFinish /\ [][Next]_vars

\* the detents, over diameters, protrusions and cut ratios (percent)
InitDetent ==
    /\ deck = DefaultDeck
    /\ box = Plain(DefaultBox)
    /\ lid_spec \in {[PlainLid EXCEPT !.detents_enabled = TRUE,
                                      !.detent_diameter_mm = d,
                                      !.detent_protrusion_mm = p,
                                      !.detent_cut_ratio = c] :
                       d \in {-1 * MM, 0, Hundredths(30), Hundredths(60), Hundredths(80),
                              2 * MM, 50 * MM},
                       p \in {-Hundredths(50), 0, Hundredths(5), Hundredths(50), 5 * MM,
                              100 * MM},
                       c \in {-20, 0, 5, 10, 50, 80, 100, 150}}
    /\ dep = PlainDep
    /\ opts = DefaultOpts
    /\ Start

SpecDetent == InitDetent /\ [][Next]_vars

\* the entry cutter, the lid profile and the fit groove, over walls, entry heights,
\* lid thicknesses and clearances, fit reliefs and wing-tip offsets
InitLid ==
    /\ deck = DefaultDeck
    /\ box \in {[Plain(DefaultBox) EXCEPT !.wall_thickness_mm = w,
                                          !.link_entry_height_to_lid = l,
                                          !.entry_height_mm = e] :
                  w \in Walls, l \in BOOLEAN, e \in {2 * MM, 5 * MM}}
    /\ lid_spec \in {[PlainLid EXCEPT !.thickness_mm = t,
                                      !.clearance_mm = c,
                                      !.groove_fit_relief_mm = r,
                                      !.hex_tip_offset_mm = o] :
                       t \in {3 * MM, Hundredths(550)},
                       c \in {0, Hundredths(20)},
                       r \in {-Hundredths(10), 0, Hundredths(10), Hundredths(30)},
                       o \in {-1 * MM, 0, Hundredths(5), Hundredths(10),
                              Hundredths(140)}}
    /\ dep = PlainDep
    /\ opts = DefaultOpts
    /\ Start

SpecLid == InitLid /\ [][Next]_vars

----------------------------------------------------------------------------
(* Properties *)

StageOrder ==
    <<"build_body", "round_outer_edges", "add_side_depressions",
      "chamfer_side_depression_openings", "add_entry_cut", "chamfer_top_inner_edges",
      "build_hex_lid", "center_lid_x_on_body", "round_lid_front_edges",
      "apply_entry_shape_to_lid", "add_lid_detents", "cut_body_with_lid", "assembly",
      "show_preview", "export_body", "export_lid", "export_assembly", "done">>

Pos(stage) == CHOOSE i \in 1..Len(StageOrder) : StageOrder[i] = stage

\* statement `stage` of main() has returned
Past(stage) == pc # "raised" /\ Pos(pc) > Pos(stage)

FinishOps == {"round_outer_edges", "chamfer_side_depression_openings",
              "chamfer_top_inner_edges", "round_lid_front_edges"}

WallX == (dims.outer[1] - dims.inner[1]) \div 2
WallY == (dims.outer[2] - dims.inner[2]) \div 2

\* C1 as stated: the inner height is the nominal inner height plus the lid
\* compensation, which is lid.thickness when compensate_lid_intrusion is set and 0
\* otherwise.
C1_InnerHeightUsesLidThickness ==
    Past("build_body") =>
        dims.inner[3] = dims.inner_nominal[3]
                        + (IF box.compensate_lid_intrusion THEN lid_spec.thickness_mm ELSE 0)

\* C1 amended: the inner height is the nominal inner height (outer sleeve height +
\* top clearance) plus the lid compensation, which is box.wall_thickness when
\* compensate_lid_intrusion is set and 0 otherwise; the wall thickness is also the
\* height build_hex_lid gives the lid.
C1_InnerHeightUsesWallThickness ==
    /\ Past("build_body") =>
          /\ dims.inner_nominal[3] = deck.outer_sleeve_size_mm[2] + deck.top_clearance_mm
          /\ dims.lid_comp_h = (IF box.compensate_lid_intrusion
                                THEN box.wall_thickness_mm ELSE 0)
          /\ dims.inner[3] = dims.inner_nominal[3] + dims.lid_comp_h
    /\ Past("build_hex_lid") /\ box.compensate_lid_intrusion => dims.lid_comp_h = lid_dims.h

C1_Witness ==
    /\ Past("build_hex_lid")
    /\ box.compensate_lid_intrusion
    /\ box.wall_thickness_mm = 4 * MM
    /\ lid_spec.thickness_mm = 3 * MM
    /\ dims.inner[3] = dims.inner_nominal[3] + 4 * MM

\* C2: for a valid configuration (wall and bottom thickness positive) the outer
\* envelope is the inner one plus two walls in width and depth and plus the bottom
\* in height, and is strictly larger in each of the three axes.
C2_OuterIsInnerPlusWalls ==
    Past("build_body") /\ box.wall_thickness_mm > 0 /\ box.bottom_thickness_mm > 0 =>
        /\ dims.outer[1] = dims.inner[1] + 2 * box.wall_thickness_mm
        /\ dims.outer[2] = dims.inner[2] + 2 * box.wall_thickness_mm
        /\ dims.outer[3] = dims.inner[3] + box.bottom_thickness_mm
        /\ \A axis \in 1..3 : dims.outer[axis] > dims.inner[axis]

C2_Witness ==
    /\ Past("build_body")
    /\ box.wall_thickness_mm = Hundredths(3)
    /\ box.bottom_thickness_mm = Hundredths(56)
    /\ deck.card_count = 1
    /\ dims.outer[1] = dims.inner[1] + Hundredths(6)

\* C3 as stated: the effective depth add_side_depressions returns never exceeds
\* min(wall_x, wall_y) - 0.05, for any requested depth and any envelope.
C3_DepthBelowWallMinusMargin ==
    Past("add_side_depressions") =>
        dep_depth_effective <= Min(WallX, WallY) - Hundredths(5)

\* C3 amended: the effective depth add_side_depressions returns never exceeds
\* max(0, min(wall_x, wall_y) - 0.05) and is never negative, for any requested
\* depth; so it never exceeds min(wall_x, wall_y) - 0.05 when the walls are at
\* least 0.05 thick, and a requested depth of 10 on a 4 mm wall yields 3.95.
C3_DepthClampedToWall ==
    Past("add_side_depressions") =>
        /\ dep_depth_effective >= 0
        /\ dep_depth_effective <= Max(0, Min(WallX, WallY) - Hundredths(5))
        /\ Min(WallX, WallY) >= Hundredths(5) =>
              dep_depth_effective <= Min(WallX, WallY) - Hundredths(5)
        /\ dep.enabled /\ Abs(dep.depth_mm) = 10 * MM /\ box.wall_thickness_mm = 4 * MM =>
              dep_depth_effective = Hundredths(395)

C3_Witness ==
    /\ Past("add_side_depressions")
    /\ dep.enabled
    /\ dep.depth_mm = 10 * MM
    /\ box.wall_thickness_mm = 4 * MM
    /\ dep_depth_effective = Hundredths(395)

\* C4 as stated: every edge-finishing operation called with a radius or chamfer
\* size <= 0 returns its input unchanged, chamfer_side_depression_openings with
\* edge_chamfer <= 0 included.
C4_NonPositiveSizeIsNoOp ==
    last.op \in FinishOps /\ last.size <= 0 => last.out = last.inp

\* C4 amended: round_outer_edges and round_lid_front_edges with corner_radius <= 0
\* and chamfer_top_inner_edges with top_chamfer <= 0 return their input unchanged
\* without calling the kernel; chamfer_side_depression_openings with
\* edge_chamfer <= 0 does so only when the effective depth is <= 0, and otherwise
\* chamfers with the diagonal hypot(depth, depth).
C4_NonPositiveSizeIsNoOpExceptDiagonal ==
    /\ last.op \in FinishOps \ {"chamfer_side_depression_openings"} /\ last.size <= 0 =>
          last.out = last.inp /\ last.tried = <<>> /\ ~last.raised
    /\ last.op = "chamfer_side_depression_openings" /\ last.size <= 0 =>
          IF dep_depth_effective <= 0
          THEN last.out = last.inp /\ last.tried = <<>> /\ ~last.raised
          ELSE last.helper = "_safe_chamfer" => last.radius = Hypot2(dep_depth_effective)

C4_Witness ==
    /\ last.op = "round_lid_front_edges"
    /\ last.size = -1 * MM
    /\ box.top_chamfer_mm = 0
    /\ last.out = last.inp
    /\ lid = last.inp

\* C5 as stated: a fillet or chamfer attempt that fails inside an edge-finishing
\* operation is never surfaced: the operation returns a solid instead of raising.
C5_FinishingFailureAbsorbed ==
    last.op \in FinishOps /\ last.failed # {} => ~last.raised /\ raised # last.op

\* C6: an edge-finishing operation whose region selects no edge returns its
\* input unchanged, without a kernel call and without raising, for every
\* positive radius.
C6_EmptySelectionIsNoOp ==
    last.op \in FinishOps /\ last.empty /\ last.radius > 0 =>
        /\ last.out = last.inp
        /\ last.tried = <<>>
        /\ ~last.raised
        /\ raised # last.op

C6_Witness ==
    /\ last.op = "round_outer_edges"
    /\ last.helper = "_safe_fillet"
    /\ last.empty
    /\ last.radius = 2 * MM
    /\ last.out = last.inp
    /\ body = last.inp

\* C7: with detents enabled and detent_cut_ratio in (0, 1], the cut protrusion
\* height is at most the full protrusion height, for every detent diameter and
\* configured protrusion.
C7_CutAtMostFull ==
    /\ Past("add_lid_detents")
    /\ lid_spec.detents_enabled
    /\ lid_spec.detent_cut_ratio > 0
    /\ lid_spec.detent_cut_ratio <= 100
    => detent.protrusion_cut <= detent.protrusion_full

C7_Witness ==
    /\ Past("add_lid_detents")
    /\ lid_spec.detents_enabled
    /\ lid_spec.detent_cut_ratio = 50
    /\ lid_spec.detent_diameter_mm = 2 * MM
    /\ detent.protrusion_full = Hundredths(50)
    /\ detent.protrusion_cut = Hundredths(25)

\* C8: with SideDepressionSpec.enabled False, add_side_depressions returns the body
\* it was given together with effective depth 0, and the chamfer pass that follows
\* returns the body unchanged too, whatever the depth, faces and margins.
C8_DisabledLeavesBody ==
    [][~dep.enabled /\ pc \in {"add_side_depressions", "chamfer_side_depression_openings"}
       => /\ body' = body
          /\ dep_depth_effective' = 0
          /\ raised' = ""
          /\ pc' = (IF pc = "add_side_depressions"
                    THEN "chamfer_side_depression_openings" ELSE "add_entry_cut")]_vars

C8_Witness ==
    /\ ~dep.enabled
    /\ pc = "add_entry_cut"
    /\ dep.depth_mm = 10 * MM
    /\ dep.faces = {">X", "<X", ">Y", "<Y"}
    /\ last.op = "chamfer_side_depression_openings"
    /\ body = last.inp
    /\ dep_depth_effective = 0

\* C9: calculate_internal returns inner width = outer sleeve width + 2 * side
\* clearance, inner depth = card count * thickness per card + stack clearance and
\* nominal inner height = outer sleeve height + top clearance, whatever the box and
\* the lid; 100 cards in 66 x 91 sleeves with side clearance 1.5 give width 69.0.
C9_InternalDimensions ==
    Past("build_body") =>
        /\ dims.inner_nominal[1] = deck.outer_sleeve_size_mm[1] + 2 * deck.side_clearance_mm
        /\ dims.inner_nominal[2] =
              deck.card_count * deck.estimated_double_sleeved_card_thickness_mm
              + deck.stack_clearance_mm
        /\ dims.inner_nominal[3] = deck.outer_sleeve_size_mm[2] + deck.top_clearance_mm
        /\ dims.inner[1] = dims.inner_nominal[1]
        /\ dims.inner[2] = dims.inner_nominal[2]
        /\ /\ deck.card_count = 100
           /\ deck.outer_sleeve_size_mm = <<66 * MM, 91 * MM>>
           /\ deck.side_clearance_mm = Hundredths(150)
           => dims.inner[1] = 69 * MM

C9_Witness ==
    /\ Past("build_body")
    /\ deck.card_count = 100
    /\ deck.outer_sleeve_size_mm = <<66 * MM, 91 * MM>>
    /\ deck.side_clearance_mm = Hundredths(150)
    /\ box.wall_thickness_mm = 1 * MM
    /\ dims.inner[1] = 69 * MM
    /\ dims.inner[2] = 78 * MM

\* C10: no partial export: once a step of main() has raised, no file has been or
\* is exported, and a file is exported only after body, lid and assembly have all
\* been built.
C10_NoPartialExport ==
    /\ raised # "" => exported = <<>>
    /\ exported # <<>> =>
          /\ raised = ""
          /\ Past("assembly")
          /\ body # NoSolid /\ lid # NoSolid /\ assembly # NoSolid

C10_Witness ==
    /\ raised = "cut_body_with_lid"
    /\ opts.export_stl
    /\ pc = "raised"
    /\ exported = <<>>
    /\ assembly = NoSolid

\* the operations that retry with a shrinking radius, called on a non-empty
\* selection with a positive radius
RetryOps == {"round_outer_edges", "chamfer_side_depression_openings",
             "round_lid_front_edges"}

RetryCall == last.op \in RetryOps /\ last.radius > 0 /\ ~last.empty

\* C11 as stated: the attempts are made at radius x 1.0, 0.85, 0.7, 0.55, 0.4 in
\* that order, at every factor until one succeeds; the first success is returned
\* and no smaller factor tried; at most five attempts.
C11_EveryFactorAttemptedUntilSuccess ==
    RetryCall =>
        LET n == Len(last.tried) IN
        /\ n <= 5
        /\ \A j \in 1..n : last.tried[j] = j
        /\ \A j \in 1..(n - 1) : last.tried[j] \in last.failed
        /\ IF last.out # last.inp
           THEN n >= 1 /\ last.tried[n] \notin last.failed
           ELSE n = 5 /\ last.failed = 1..5

\* the factors at which an attempt is made: all five in round_lid_front_edges,
\* those with radius x factor >= 0.05 in _safe_fillet and _safe_chamfer
C11_Attempted(radius, guarded) ==
    LET pct == <<100, 85, 70, 55, 40>>
        Kept(i) == ~guarded \/ (radius * pct[i]) \div 100 >= Hundredths(5)
    IN  SelectSeq(<<1, 2, 3, 4, 5>>, Kept)

\* C11 amended: the attempts are made in the order 1.0, 0.85, 0.7, 0.55, 0.4, at
\* every factor (in _safe_fillet and _safe_chamfer: every factor whose scaled
\* radius is at least 0.05 mm, the others being skipped without an attempt) until
\* one succeeds; the first success is returned and no smaller factor tried; when
\* none succeeds the input is returned; at most five attempts.
C11_EveryKeptFactorAttemptedUntilSuccess ==
    RetryCall =>
        LET n == Len(last.tried)
            A == C11_Attempted(last.radius, last.helper # "")
        IN
        /\ n <= Len(A) /\ Len(A) <= 5
        /\ \A j \in 1..n : last.tried[j] = A[j]
        /\ \A j \in 1..(n - 1) : last.tried[j] \in last.failed
        /\ IF last.out # last.inp
           THEN n >= 1 /\ last.tried[n] \notin last.failed
           ELSE n = Len(A) /\ last.failed = {A[j] : j \in 1..n}

C11_Witness ==
    /\ last.op = "round_outer_edges"
    /\ last.helper = "_safe_fillet"
    /\ last.radius = Hundredths(10)
    /\ ~last.empty
    /\ last.tried = <<1, 2, 3, 4>>
    /\ last.failed = {1, 2, 3, 4}
    /\ last.out = last.inp

\* C12 as stated: with fit relief > 0 the groove cutter is the lid silhouette
\* unioned with copies translated by +-fit_relief along the axes transverse to
\* the sliding direction Y only: no copy is displaced along Y, so the cutter is
\* no longer along Y than the unrelieved one.
C12_ReliefTransverseOnly ==
    groove_cutter.cuts > 0 /\ lid_spec.groove_fit_relief_mm > 0 =>
        /\ <<0, 0, -Hundredths(5)>> \in groove_cutter.offsets
        /\ Cardinality(groove_cutter.offsets) > 1
        /\ \A o \in groove_cutter.offsets : o[2] = 0

\* C13 as stated: when the primary fit-groove cut raises, cut_body_with_lid makes
\* a second attempt with the cutter offset along the stacking axis: an error
\* leaves cut_body_with_lid only after two cuts have been attempted.
C13_GrooveCutRetried ==
    raised = "cut_body_with_lid" => groove_cutter.cuts >= 2

\* C14 as stated: with detents enabled and detent_cut_ratio in (0, 1], the cut
\* protrusion is the full protrusion times the configured detent_cut_ratio.
C14_CutIsFullTimesRatio ==
    /\ Past("add_lid_detents")
    /\ lid_spec.detents_enabled
    /\ lid_spec.detent_cut_ratio > 0
    /\ lid_spec.detent_cut_ratio <= 100
    => detent.protrusion_cut * 100 = detent.protrusion_full * lid_spec.detent_cut_ratio

\* C14 amended: with detents enabled, the cut protrusion is the full protrusion
\* times the detent_cut_ratio clamped to [0.1, 1], for every configured ratio; so
\* it is the full protrusion times the configured ratio for every ratio in
\* [0.1, 1], and a tenth of the full protrusion for every ratio below 0.1.
C14_CutIsFullTimesClampedRatio ==
    Past("add_lid_detents") /\ lid_spec.detents_enabled =>
        /\ detent.cut_ratio = Min(100, Max(10, lid_spec.detent_cut_ratio))
        /\ detent.protrusion_cut * 100 = detent.protrusion_full * detent.cut_ratio
        /\ lid_spec.detent_cut_ratio \in 10..100 =>
              detent.protrusion_cut * 100
                  = detent.protrusion_full * lid_spec.detent_cut_ratio
        /\ lid_spec.detent_cut_ratio < 10 =>
              detent.protrusion_cut * 10 = detent.protrusion_full

C14_Witness ==
    /\ Past("add_lid_detents")
    /\ lid_spec.detents_enabled
    /\ lid_spec.detent_cut_ratio = 5
    /\ detent.protrusion_full = Hundredths(50)
    /\ detent.protrusion_cut = Hundredths(5)

\* the stages the order is stated over, by the statement that runs each:
\* dimensions and shell (build_body), body edge finishing, side depressions and
\* their chamfer, entry cut, lid profile, entry mirroring, detents, fit groove,
\* assembly union
NamedStages ==
    <<"build_body", "round_outer_edges", "add_side_depressions",
      "chamfer_side_depression_openings", "add_entry_cut", "build_hex_lid",
      "apply_entry_shape_to_lid", "add_lid_detents", "cut_body_with_lid", "assembly">>

InNamed(stage) == \E i \in 1..Len(NamedStages) : NamedStages[i] = stage

BodyFinishOps == {"round_outer_edges", "chamfer_side_depression_openings",
                  "chamfer_top_inner_edges"}

\* the named stages have run in the stated order, each at most once
NamedInOrder == SelectSeq(ran, InNamed) = SubSeq(NamedStages, 1, Len(SelectSeq(ran, InNamed)))

\* C15 as stated: the named stages run strictly in the stated order, and no
\* edge-finishing operation on the body runs after the entry cut.
C15_StagesInOrderNoBodyFinishAfterEntry ==
    /\ NamedInOrder
    /\ \A i, j \in 1..Len(ran) :
          i < j /\ ran[i] = "add_entry_cut" => ran[j] \notin BodyFinishOps

\* C15 amended: the statements of main() run strictly in its order, so the named
\* stages run in the stated order; chamfer_top_inner_edges, an edge-finishing
\* operation on the body, runs immediately after the entry cut, and it is the
\* only one that runs after it; the lid is centred and its front edges rounded
\* between the lid profile and the entry mirroring.
C15_StagesInMainOrder ==
    /\ ran = SubSeq(StageOrder, 1, Len(ran))
    /\ Len(ran) < Len(StageOrder)
    /\ NamedInOrder
    /\ \A i, j \in 1..Len(ran) :
          i < j /\ ran[i] = "add_entry_cut" /\ ran[j] \in BodyFinishOps =>
              j = i + 1 /\ ran[j] = "chamfer_top_inner_edges"
    /\ pc # "raised" => pc = StageOrder[Len(ran) + 1] \/ pc = "done"

C15_Witness ==
    /\ pc = "done"
    /\ opts.export_stl
    /\ Len(ran) = 17
    /\ ran[5] = "add_entry_cut"
    /\ ran[6] = "chamfer_top_inner_edges"
    /\ ran[7] = "build_hex_lid"
    /\ ran[13] = "assembly"

\* kernel operation `op` is among those that produced `solid`
HasOp(solid, op) == \E i \in 1..Len(solid) : solid[i] = op

\* C16: of the two lids returned by add_lid_detents, the cut-detent lid and only
\* it is passed to the fit-groove cut, and the full-detent lid and only it is the
\* lid operand of the assembly union and the lid exported; no exported solid is
\* the cut-detent lid; with detents disabled both are the same input lid.
C16_LidRoles ==
    /\ groove_cutter.cuts > 0 =>
          /\ groove_cutter.lid = lid_cutter
          /\ ~HasOp(groove_cutter.lid, "union_caps_full")
          /\ lid_spec.detents_enabled => HasOp(groove_cutter.lid, "union_caps_cut")
    /\ assembly # NoSolid =>
          /\ assembly_lid = lid
          /\ ~HasOp(assembly_lid, "union_caps_cut")
          /\ lid_spec.detents_enabled => HasOp(assembly_lid, "union_caps_full")
    /\ \A i \in 1..Len(exported) :
          /\ ~HasOp(exported[i].solid, "union_caps_cut")
          /\ exported[i].file = "lid" =>
                /\ exported[i].solid = lid
                /\ lid_spec.detents_enabled => HasOp(exported[i].solid, "union_caps_full")
    /\ Past("add_lid_detents") /\ ~lid_spec.detents_enabled =>
          /\ lid_cutter = lid
          /\ ~HasOp(lid, "union_caps_full") /\ ~HasOp(lid, "union_caps_cut")

C16_Witness ==
    /\ pc = "done"
    /\ lid_spec.detents_enabled
    /\ Len(exported) = 3
    /\ exported[2].file = "lid"
    /\ HasOp(exported[2].solid, "union_caps_full")
    /\ HasOp(groove_cutter.lid, "union_caps_cut")
    /\ assembly_lid = exported[2].solid
    /\ groove_cutter.lid # assembly_lid

\* C17 as stated: the entry height used by build_entry_cutter is the lid thickness
\* when link_entry_height_to_lid is set and box.entry_height otherwise, and the
\* cutter is higher than that by a relief margin only if lid.clearance > 0.
C17_EntryHeightLidThicknessMarginIfClearance ==
    entry_cutter # NoEntryCutter =>
        /\ entry_cutter.entry_h = IF box.link_entry_height_to_lid
                                  THEN lid_spec.thickness_mm
                                  ELSE box.entry_height_mm
        /\ IF lid_spec.clearance_mm > 0
           THEN entry_cutter.size[3] > entry_cutter.entry_h
           ELSE entry_cutter.size[3] = entry_cutter.entry_h

\* C17 amended: the entry height used by build_entry_cutter is
\* box.wall_thickness (the height the lid is built with) when
\* link_entry_height_to_lid is set and box.entry_height otherwise, and the cutter
\* is 0.2 higher than that whatever lid.clearance and lid.thickness are.
C17_EntryHeightWallThicknessFixedMargin ==
    entry_cutter # NoEntryCutter =>
        /\ entry_cutter.entry_h = IF box.link_entry_height_to_lid
                                  THEN box.wall_thickness_mm
                                  ELSE box.entry_height_mm
        /\ entry_cutter.size[3] = entry_cutter.entry_h + Hundredths(20)
        /\ entry_cutter.size[2] = box.entry_depth_mm
        /\ Past("build_hex_lid") /\ box.link_entry_height_to_lid =>
              entry_cutter.entry_h = lid_dims.h

C17_Witness ==
    /\ Past("build_hex_lid")
    /\ box.link_entry_height_to_lid
    /\ box.wall_thickness_mm = 4 * MM
    /\ lid_spec.thickness_mm = 3 * MM
    /\ lid_spec.clearance_mm = 0
    /\ entry_cutter.entry_h = 4 * MM
    /\ entry_cutter.size[3] = Hundredths(420)

\* C18: after build_hex_lid the lid's extent along the depth axis Y has length
\* inner_depth + wall_thickness and runs from -inner_depth/2 to +outer_depth/2,
\* for every envelope and on whichever side of the XZ plane the extrusion lay.
C18_LidDepthExtent ==
    hex_lid_geom # NoHexLid =>
        /\ hex_lid_geom.ymax - hex_lid_geom.ymin = dims.inner[2] + box.wall_thickness_mm
        /\ 2 * hex_lid_geom.ymin = -dims.inner[2]
        /\ 2 * hex_lid_geom.ymax = dims.outer[2]
        /\ hex_lid_geom.ymin = lid_dims.y_min
        /\ hex_lid_geom.ymax = lid_dims.y_max

C18_Witness ==
    /\ Past("build_hex_lid")
    /\ dims.inner[2] = 78 * MM
    /\ box.wall_thickness_mm = 1 * MM
    /\ dims.outer[2] = 80 * MM
    /\ hex_lid_geom.ymin = -39 * MM
    /\ hex_lid_geom.ymax = 40 * MM

\* C19 as stated: the lid profile has flat top and bottom edges of width
\* inner_width and a tip-to-tip width of inner_width + 2 x the configured
\* hex_tip_offset, for every configured hex_tip_offset.
C19_ProfileWidthConfiguredOffset ==
    hex_lid_geom # NoHexLid =>
        LET pts == hex_lid_geom.pts IN
        /\ pts[3][1] - pts[2][1] = dims.inner[1]
        /\ pts[5][1] - pts[6][1] = dims.inner[1]
        /\ pts[4][1] - pts[1][1] = dims.inner[1] + 2 * lid_spec.hex_tip_offset_mm

\* C19 amended: the lid profile has flat top and bottom edges of width
\* inner_width and a tip-to-tip width of inner_width + 2 x max(0.1,
\* hex_tip_offset): the configured offset for every offset of at least 0.1, and
\* 0.1 for every smaller one.
C19_ProfileWidthFlooredOffset ==
    hex_lid_geom # NoHexLid =>
        LET pts == hex_lid_geom.pts IN
        /\ Len(pts) = 6
        /\ pts[3][1] - pts[2][1] = dims.inner[1]
        /\ pts[5][1] - pts[6][1] = dims.inner[1]
        /\ pts[2][2] = pts[3][2] /\ pts[5][2] = pts[6][2] /\ pts[2][2] = -pts[5][2]
        /\ pts[1][2] = 0 /\ pts[4][2] = 0
        /\ pts[4][1] - pts[1][1]
              = dims.inner[1] + 2 * Max(Hundredths(10), lid_spec.hex_tip_offset_mm)
        /\ pts[4][1] - pts[1][1] = lid_dims.w_total
        /\ lid_spec.hex_tip_offset_mm >= Hundredths(10) =>
              pts[4][1] - pts[1][1] = dims.inner[1] + 2 * lid_spec.hex_tip_offset_mm

C19_Witness ==
    /\ Past("build_hex_lid")
    /\ lid_spec.hex_tip_offset_mm = Hundredths(5)
    /\ dims.inner[1] = 69 * MM
    /\ hex_lid_geom.pts[1][1] = -(Hundredths(3460))
    /\ hex_lid_geom.pts[4][1] = Hundredths(3460)

\* C20: with detents enabled, for every configured diameter and protrusion the
\* sphere radius r is at least 0.2 and 0.1 <= full <= 0.98 r, so the full and the
\* cut protrusion are positive and strictly smaller than r: each detent is a
\* proper spherical cap.
C20_DetentIsProperCap ==
    Past("add_lid_detents") /\ lid_spec.detents_enabled =>
        /\ detent.r >= Hundredths(20)
        /\ 2 * detent.r >= lid_spec.detent_diameter_mm - 1
        /\ detent.protrusion_full >= Hundredths(10)
        /\ 100 * detent.protrusion_full <= 98 * detent.r
        /\ detent.protrusion_full < detent.r
        /\ detent.protrusion_cut > 0
        /\ detent.protrusion_cut <= detent.protrusion_full
        /\ detent.protrusion_cut < detent.r

C20_Witness ==
    /\ Past("add_lid_detents")
    /\ lid_spec.detents_enabled
    /\ lid_spec.detent_diameter_mm = -1 * MM
    /\ lid_spec.detent_protrusion_mm = 100 * MM
    /\ detent.r = Hundredths(20)
    /\ 100 * detent.protrusion_full = 98 * detent.r

====
